---- MODULE Spec2Model ----
(***************************************************************************)
(* The restricted-invocation callback registry of the SWE library:         *)
(*   swe::static_event            (static_event.hpp, single-threaded)      *)
(*   swe::concurrent_static_event (concurrent_static_event.hpp, one mutex) *)
(* A registry owns the vector _callbacks of function pointers; operator+=  *)
(* subscribes, operator-= unsubscribes, operator() invokes.                *)
(***************************************************************************)
EXTENDS Naturals, Sequences, FiniteSets, TLC

(***************************************************************************)
(* Bounds of the model.                                                    *)
(***************************************************************************)
\* number of threads that use a concurrent_static_event
NumThreads == 2
Iterations == 3
MaxStrLen == 3
MaxKeyLen == 2
IntBits == 24
MaxHashLen == 2
SizeBits == 12
MaxInserts == 3
MaxSplitLen == 4
MaxSlugLen == 4
\* number of operator+=, operator-= and operator() calls made on a
\* static_event in one run
MaxStaticOps == 5
\* number of operator+=, operator-= and operator() calls the threads make on
\* a concurrent_static_event in one run
MaxConcOps == 3

\* the longest vector of callbacks of the threads that never stop
MaxCallbacks == 2

Threads == 1 .. NumThreads

\* the thread every call on a static_event is made from
MainThread == 1

\* the function pointers handed to operator+= and operator-=
Handles == {"callback1", "callback2", "callback3"}

\* what a call cb(args...) does: it returns, or an exception leaves it
Outcomes == {"return", "throw"}

\* the two class templates
Modes == {"static_event", "concurrent_static_event"}

\* std::mutex: 0 when unlocked, else the thread that owns it
Unlocked == 0

VARIABLES
    mode,       \* which class template the registry is an instance of
    callbacks,  \* _callbacks: the vector of function pointers
    mutex,      \* _mutex: Unlocked or the owning thread
    pc,         \* per thread: where it is inside an operator
    cb,         \* per thread: the argument cb of its operator+= / operator-=
    it,         \* per thread: the iterator of its loop (operator()) or the
                \*   iterator std::remove returned (operator-=), 1-based
    last,       \* per thread: the end iterator the range-for cached
    trace,      \* per thread: the function pointers its operator() has called
    res,        \* per thread: how its latest operator ended
    lastop,     \* per thread: its latest operator
    threwAt,    \* per thread: position of the callback that threw, 0 if none
    snap,       \* per thread: _callbacks when its operator began (under the
                \*   lock, in the concurrent class)
    hsnap,      \* per thread: the position of its operator in hist
    issued,     \* per thread: the operators it has called, in program order
    hist,       \* the operators in the order they began on the vector
    args,       \* per thread: the argument of its operator()(args...)
    counter_was, \* per thread: counter when the loop of its operator() began
    counter,    \* CallbackTracker::counter of the tests
    last_value, \* CallbackTracker::last_value of the tests
    nested,     \* per thread: the operator a running callback has called on
                \*   the registry that is invoking it, "none" if none
    call,       \* the arguments of a call of a string or map utility
    ret         \* what that call has returned so far

\* the registry, its threads and the bookkeeping of their operators
regVars == << mode, callbacks, mutex, pc, cb, it, last, trace, res, lastop,
              threwAt, snap, hsnap, issued, hist >>

\* the callbacks' own state and the utilities' calls
extVars == << args, counter_was, counter, last_value, nested, call, ret >>

vars == << regVars, extVars >>

(***************************************************************************)
(* Sequence helpers.                                                       *)
(***************************************************************************)
Range(s) == { s[i] : i \in 1 .. Len(s) }

Count(s, h) == Cardinality({ i \in 1 .. Len(s) : s[i] = h })

Without(s, h) == SelectSeq(s, LAMBDA x : x # h)

IsPrefix(p, s) == Len(p) <= Len(s) /\ p = SubSeq(s, 1, Len(p))

(***************************************************************************)
(* std::vector and <algorithm> as the operators use them.                  *)
(***************************************************************************)
\* a push_back that skips a function pointer the vector already holds
PushBack_Unique(s, h) == IF h \in Range(s) THEN s ELSE Append(s, h)

\* an insert at begin() in place of push_back
PushBack_Front(s, h) == << h >> \o s

\* _callbacks.push_back(cb)
PushBack(s, h) == Append(s, h)

\* std::remove(first, end, value): every element not equal to value is moved
\* to the front, in order; the places from the returned iterator on keep
\* what they held.
RECURSIVE RemoveLoop(_, _, _, _)
RemoveLoop(s, first, result, value) ==
    IF first > Len(s)
    THEN [seq |-> s, it |-> result]
    ELSE IF s[first] # value
         THEN RemoveLoop([s EXCEPT ![result] = s[first]], first + 1, result + 1, value)
         ELSE RemoveLoop(s, first + 1, result, value)

\* a removal of the first element equal to value only
StdRemove_First(s, value) ==
    LET at == { i \in 1 .. Len(s) : s[i] = value }
    IN IF at = {} THEN [seq |-> s, it |-> Len(s) + 1]
       ELSE LET i == CHOOSE x \in at : \A y \in at : x <= y
            IN [seq |-> SubSeq(s, 1, i - 1) \o SubSeq(s, i + 1, Len(s)) \o << s[Len(s)] >>,
                it |-> Len(s)]

\* a removal with the comparison the wrong way round: it keeps the elements
\* equal to value
StdRemove_Inverted(s, value) ==
    LET kept == SelectSeq(s, LAMBDA x : x = value)
    IN [seq |-> kept \o SubSeq(s, Len(kept) + 1, Len(s)), it |-> Len(kept) + 1]

\* a removal that fills each hole from the back: the elements kept come out
\* in reverse order
StdRemove_Unstable(s, value) ==
    LET kept == Without(s, value)
        n == Len(kept)
    IN [seq |-> [i \in 1 .. Len(s) |-> IF i <= n THEN kept[n + 1 - i] ELSE s[i]],
        it |-> n + 1]

StdRemove(s, value) == RemoveLoop(s, 1, 1, value)

\* _callbacks.end()
End(s) == Len(s) + 1

\* an erase that removes nothing
Erase_Nothing(s, i) == s

\* _callbacks.erase(it, _callbacks.end())
Erase(s, i) == SubSeq(s, 1, i - 1)

\* if (it != _callbacks.end()) _callbacks.erase(it, _callbacks.end());
EraseIfFound(s, i) == IF i # End(s) THEN Erase(s, i) ELSE s

\* no callback has run, no utility has been called
ExtInit ==
    /\ args = [t \in Threads |-> 0]
    /\ counter_was = [t \in Threads |-> 0]
    /\ counter = 0
    /\ last_value = 0
    /\ nested = [t \in Threads |-> "none"]
    /\ call = [fn |-> "none"]
    /\ ret = << >>

(***************************************************************************)
(* Initial state: a default-constructed registry of either class.          *)
(***************************************************************************)
Init ==
    /\ mode \in Modes
    /\ callbacks = << >>
    /\ mutex = Unlocked
    /\ pc = [t \in Threads |-> "idle"]
    /\ cb = [t \in Threads |-> "none"]
    /\ it = [t \in Threads |-> 0]
    /\ last = [t \in Threads |-> 0]
    /\ trace = [t \in Threads |-> << >>]
    /\ res = [t \in Threads |-> "none"]
    /\ lastop = [t \in Threads |-> "none"]
    /\ threwAt = [t \in Threads |-> 0]
    /\ snap = [t \in Threads |-> << >>]
    /\ hsnap = [t \in Threads |-> 0]
    /\ issued = [t \in Threads |-> << >>]
    /\ hist = << >>
    /\ ExtInit

RECURSIVE SumLen(_, _)
SumLen(f, S) ==
    IF S = {} THEN 0
    ELSE LET t == CHOOSE x \in S : TRUE IN Len(f[t]) + SumLen(f, S \ {t})

\* a thread may call another operator
MaxOps == IF mode = "static_event" THEN MaxStaticOps ELSE MaxConcOps

MayCall(t) == pc[t] = "idle" /\ SumLen(issued, Threads) < MaxOps

\* bookkeeping of a call and of the moment it begins on the vector
Issue(t, op, h) == issued' = [issued EXCEPT ![t] = Append(@, [op |-> op, cb |-> h])]

Begin(t, op, h) ==
    /\ hist' = Append(hist, [t |-> t, op |-> op, cb |-> h])
    /\ hsnap' = [hsnap EXCEPT ![t] = Len(hist) + 1]
    /\ snap' = [snap EXCEPT ![t] = callbacks]

(***************************************************************************)
(* The call cb(args...) inside the loop of operator(): no try block is     *)
(* around it, so an exception leaves the loop and the operator.            *)
(***************************************************************************)
\* a loop that catches what a callback throws and goes on
Propagates_Swallow(outcome) == FALSE

Propagates(outcome) == outcome = "throw"

\* a loop that walks the vector from the back
Deref_Reverse(s, i) == s[Len(s) + 1 - i]

\* auto& cb = *it, the element the loop's iterator stands on
Deref(s, i) == s[i]

\* one turn of  for (auto& cb : _callbacks) cb(args...);  by thread t
LoopCall(t, outcome) ==
    /\ it[t] # last[t]
    /\ trace' = [trace EXCEPT ![t] = Append(@, Deref(callbacks, it[t]))]
    /\ threwAt' = [threwAt EXCEPT ![t] = IF outcome = "throw" THEN it[t] ELSE @]
    /\ IF Propagates(outcome)
       THEN /\ pc' = [pc EXCEPT ![t] = "idle"]
            /\ res' = [res EXCEPT ![t] = "fault"]
            /\ it' = it
       ELSE /\ pc' = pc
            /\ res' = res
            /\ it' = [it EXCEPT ![t] = @ + 1]

\* the loop has reached the end iterator: operator() returns
LoopEnd(t) ==
    /\ it[t] = last[t]
    /\ pc' = [pc EXCEPT ![t] = "idle"]
    /\ res' = [res EXCEPT ![t] = "returned"]

\* the range-for takes begin() and end() once, before the first turn
LoopBegin(t) ==
    /\ it' = [it EXCEPT ![t] = 1]
    /\ last' = [last EXCEPT ![t] = End(callbacks)]
    /\ trace' = [trace EXCEPT ![t] = << >>]
    /\ threwAt' = [threwAt EXCEPT ![t] = 0]
    /\ res' = [res EXCEPT ![t] = "none"]
    /\ lastop' = [lastop EXCEPT ![t] = "invoke"]

(***************************************************************************)
(* swe::static_event: every call is made from one thread, no lock.         *)
(***************************************************************************)
\* static_event::operator+=(cb)
StaticSubscribe(h) ==
    /\ mode = "static_event"
    /\ MayCall(MainThread)
    /\ Issue(MainThread, "subscribe", h)
    /\ Begin(MainThread, "subscribe", h)
    /\ callbacks' = PushBack(callbacks, h)
    /\ cb' = [cb EXCEPT ![MainThread] = h]
    /\ lastop' = [lastop EXCEPT ![MainThread] = "subscribe"]
    /\ res' = [res EXCEPT ![MainThread] = "returned"]
    /\ UNCHANGED << mode, mutex, pc, it, last, trace, threwAt >>

\* static_event::operator-=(cb)
StaticUnsubscribe(h) ==
    /\ mode = "static_event"
    /\ MayCall(MainThread)
    /\ Issue(MainThread, "unsubscribe", h)
    /\ Begin(MainThread, "unsubscribe", h)
    /\ LET r == StdRemove(callbacks, h)
       IN /\ callbacks' = EraseIfFound(r.seq, r.it)
          /\ it' = [it EXCEPT ![MainThread] = r.it]
    /\ cb' = [cb EXCEPT ![MainThread] = h]
    /\ lastop' = [lastop EXCEPT ![MainThread] = "unsubscribe"]
    /\ res' = [res EXCEPT ![MainThread] = "returned"]
    /\ UNCHANGED << mode, mutex, pc, last, trace, threwAt >>

\* static_event::operator()(args...), up to the first turn of its loop
StaticInvoke ==
    /\ mode = "static_event"
    /\ MayCall(MainThread)
    /\ Issue(MainThread, "invoke", "none")
    /\ Begin(MainThread, "invoke", "none")
    /\ LoopBegin(MainThread)
    /\ pc' = [pc EXCEPT ![MainThread] = "loop"]
    /\ UNCHANGED << mode, callbacks, mutex, cb >>

\* one callback is called
StaticInvokeCall(outcome) ==
    /\ mode = "static_event"
    /\ pc[MainThread] = "loop"
    /\ LoopCall(MainThread, outcome)
    /\ UNCHANGED << mode, callbacks, mutex, cb, last, lastop, snap, hsnap, issued, hist >>

\* an operator() that empties the vector once it has called it
StaticInvokeReturn_Clear ==
    /\ mode = "static_event"
    /\ pc[MainThread] = "loop"
    /\ LoopEnd(MainThread)
    /\ callbacks' = << >>
    /\ UNCHANGED << mode, mutex, cb, it, last, trace, lastop, threwAt,
                    snap, hsnap, issued, hist >>

\* the loop is over
StaticInvokeReturn ==
    /\ mode = "static_event"
    /\ pc[MainThread] = "loop"
    /\ LoopEnd(MainThread)
    /\ UNCHANGED << mode, callbacks, mutex, cb, it, last, trace, lastop, threwAt,
                    snap, hsnap, issued, hist >>

(***************************************************************************)
(* swe::concurrent_static_event: each operator holds _mutex through a      *)
(* std::lock_guard from its first statement to its end.                    *)
(***************************************************************************)
\* a lock that does not wait for the owner to release the mutex
MutexLock_NoWait(t) == mutex' = t

\* std::lock_guard<std::mutex> lock(_mutex): blocks while another thread
\* owns the mutex
MutexLock(t) == mutex = Unlocked /\ mutex' = t

\* a lock_guard whose destructor leaves the mutex locked
MutexUnlock_Keep(t) == mutex' = mutex

\* ~lock_guard, at the end of the operator's scope or when an exception
\* unwinds it
MutexUnlock(t) == mutex' = Unlocked

\* a thread calls concurrent_static_event::operator+=(cb)
ConcSubscribe(t, h) ==
    /\ mode = "concurrent_static_event"
    /\ MayCall(t)
    /\ Issue(t, "subscribe", h)
    /\ pc' = [pc EXCEPT ![t] = "sub_lock"]
    /\ cb' = [cb EXCEPT ![t] = h]
    /\ lastop' = [lastop EXCEPT ![t] = "subscribe"]
    /\ res' = [res EXCEPT ![t] = "none"]
    /\ UNCHANGED << mode, callbacks, mutex, it, last, trace, threwAt, snap, hsnap, hist >>

\* operator+= without its lock_guard
ConcSubscribeLock_NoGuard(t) ==
    /\ pc[t] = "sub_lock"
    /\ Begin(t, "subscribe", cb[t])
    /\ pc' = [pc EXCEPT ![t] = "sub_push"]
    /\ UNCHANGED << mode, callbacks, mutex, cb, it, last, trace, res, lastop, threwAt,
                    issued >>

\* operator+=: the lock_guard is constructed
ConcSubscribeLock(t) ==
    /\ pc[t] = "sub_lock"
    /\ MutexLock(t)
    /\ Begin(t, "subscribe", cb[t])
    /\ pc' = [pc EXCEPT ![t] = "sub_push"]
    /\ UNCHANGED << mode, callbacks, cb, it, last, trace, res, lastop, threwAt, issued >>

\* an operator+= that pushes the callback twice
ConcSubscribePush_Twice(t) ==
    /\ pc[t] = "sub_push"
    /\ callbacks' = PushBack(PushBack(callbacks, cb[t]), cb[t])
    /\ MutexUnlock(t)
    /\ pc' = [pc EXCEPT ![t] = "idle"]
    /\ res' = [res EXCEPT ![t] = "returned"]
    /\ UNCHANGED << mode, cb, it, last, trace, lastop, threwAt, snap, hsnap, issued, hist >>

\* operator+=: push_back, then the lock_guard goes out of scope
ConcSubscribePush(t) ==
    /\ pc[t] = "sub_push"
    /\ callbacks' = PushBack(callbacks, cb[t])
    /\ MutexUnlock(t)
    /\ pc' = [pc EXCEPT ![t] = "idle"]
    /\ res' = [res EXCEPT ![t] = "returned"]
    /\ UNCHANGED << mode, cb, it, last, trace, lastop, threwAt, snap, hsnap, issued, hist >>

\* a thread calls concurrent_static_event::operator-=(cb)
ConcUnsubscribe(t, h) ==
    /\ mode = "concurrent_static_event"
    /\ MayCall(t)
    /\ Issue(t, "unsubscribe", h)
    /\ pc' = [pc EXCEPT ![t] = "unsub_lock"]
    /\ cb' = [cb EXCEPT ![t] = h]
    /\ lastop' = [lastop EXCEPT ![t] = "unsubscribe"]
    /\ res' = [res EXCEPT ![t] = "none"]
    /\ UNCHANGED << mode, callbacks, mutex, it, last, trace, threwAt, snap, hsnap, hist >>

\* operator-=: the lock_guard is constructed
ConcUnsubscribeLock(t) ==
    /\ pc[t] = "unsub_lock"
    /\ MutexLock(t)
    /\ Begin(t, "unsubscribe", cb[t])
    /\ pc' = [pc EXCEPT ![t] = "unsub_remove"]
    /\ UNCHANGED << mode, callbacks, cb, it, last, trace, res, lastop, threwAt, issued >>

\* operator-=: auto it = std::remove(begin, end, cb)
ConcUnsubscribeRemove(t) ==
    /\ pc[t] = "unsub_remove"
    /\ LET r == StdRemove(callbacks, cb[t])
       IN /\ callbacks' = r.seq
          /\ it' = [it EXCEPT ![t] = r.it]
    /\ pc' = [pc EXCEPT ![t] = "unsub_erase"]
    /\ UNCHANGED << mode, mutex, cb, last, trace, res, lastop, threwAt, snap, hsnap,
                    issued, hist >>

\* an operator-= of the concurrent class that leaves out the erase
ConcUnsubscribeErase_Skip(t) ==
    /\ pc[t] = "unsub_erase"
    /\ MutexUnlock(t)
    /\ pc' = [pc EXCEPT ![t] = "idle"]
    /\ res' = [res EXCEPT ![t] = "returned"]
    /\ UNCHANGED << mode, callbacks, cb, it, last, trace, lastop, threwAt, snap, hsnap,
                    issued, hist >>

\* operator-=: the conditional erase, then the lock_guard goes out of scope
ConcUnsubscribeErase(t) ==
    /\ pc[t] = "unsub_erase"
    /\ callbacks' = EraseIfFound(callbacks, it[t])
    /\ MutexUnlock(t)
    /\ pc' = [pc EXCEPT ![t] = "idle"]
    /\ res' = [res EXCEPT ![t] = "returned"]
    /\ UNCHANGED << mode, cb, it, last, trace, lastop, threwAt, snap, hsnap, issued, hist >>

\* a thread calls concurrent_static_event::operator()(args...) through the
\* Caller class
ConcInvoke(t) ==
    /\ mode = "concurrent_static_event"
    /\ MayCall(t)
    /\ Issue(t, "invoke", "none")
    /\ pc' = [pc EXCEPT ![t] = "inv_lock"]
    /\ lastop' = [lastop EXCEPT ![t] = "invoke"]
    /\ res' = [res EXCEPT ![t] = "none"]
    /\ trace' = [trace EXCEPT ![t] = << >>]
    /\ threwAt' = [threwAt EXCEPT ![t] = 0]
    /\ UNCHANGED << mode, callbacks, mutex, cb, it, last, snap, hsnap, hist >>

\* operator() without its lock_guard
ConcInvokeLock_NoGuard(t) ==
    /\ pc[t] = "inv_lock"
    /\ Begin(t, "invoke", "none")
    /\ LoopBegin(t)
    /\ pc' = [pc EXCEPT ![t] = "loop"]
    /\ UNCHANGED << mode, callbacks, mutex, cb, issued >>

\* operator(): the lock_guard is constructed and the loop begins
ConcInvokeLock(t) ==
    /\ pc[t] = "inv_lock"
    /\ MutexLock(t)
    /\ Begin(t, "invoke", "none")
    /\ LoopBegin(t)
    /\ pc' = [pc EXCEPT ![t] = "loop"]
    /\ UNCHANGED << mode, callbacks, cb, issued >>

\* an operator() that locks and unlocks by hand, so that an exception leaves
\* the mutex locked
ConcInvokeCall_NoUnwind(t, outcome) ==
    /\ mode = "concurrent_static_event"
    /\ pc[t] = "loop"
    /\ LoopCall(t, outcome)
    /\ mutex' = mutex
    /\ UNCHANGED << mode, callbacks, cb, last, lastop, snap, hsnap, issued, hist >>

\* operator(): one callback is called; an exception unwinds the lock_guard
ConcInvokeCall(t, outcome) ==
    /\ mode = "concurrent_static_event"
    /\ pc[t] = "loop"
    /\ LoopCall(t, outcome)
    /\ IF Propagates(outcome) THEN MutexUnlock(t) ELSE mutex' = mutex
    /\ UNCHANGED << mode, callbacks, cb, last, lastop, snap, hsnap, issued, hist >>

\* operator(): the loop is over and the lock_guard goes out of scope
ConcInvokeReturn(t) ==
    /\ mode = "concurrent_static_event"
    /\ pc[t] = "loop"
    /\ LoopEnd(t)
    /\ MutexUnlock(t)
    /\ UNCHANGED << mode, callbacks, cb, it, last, trace, lastop, threwAt, snap, hsnap,
                    issued, hist >>

(***************************************************************************)
(* The registry of either class.                                           *)
(***************************************************************************)
Next ==
    \/ (\E h \in Handles : StaticSubscribe(h)) /\ UNCHANGED extVars
    \/ (\E h \in Handles : StaticUnsubscribe(h)) /\ UNCHANGED extVars
    \/ StaticInvoke /\ UNCHANGED extVars
    \/ (\E o \in Outcomes : StaticInvokeCall(o)) /\ UNCHANGED extVars
    \/ StaticInvokeReturn /\ UNCHANGED extVars
    \/ (\E t \in Threads, h \in Handles : ConcSubscribe(t, h)) /\ UNCHANGED extVars
    \/ (\E t \in Threads : ConcSubscribeLock(t)) /\ UNCHANGED extVars
    \/ (\E t \in Threads : ConcSubscribePush(t)) /\ UNCHANGED extVars
    \/ (\E t \in Threads, h \in Handles : ConcUnsubscribe(t, h)) /\ UNCHANGED extVars
    \/ (\E t \in Threads : ConcUnsubscribeLock(t)) /\ UNCHANGED extVars
    \/ (\E t \in Threads : ConcUnsubscribeRemove(t)) /\ UNCHANGED extVars
    \/ (\E t \in Threads : ConcUnsubscribeErase(t)) /\ UNCHANGED extVars
    \/ (\E t \in Threads : ConcInvoke(t)) /\ UNCHANGED extVars
    \/ (\E t \in Threads : ConcInvokeLock(t)) /\ UNCHANGED extVars
    \/ (\E t \in Threads, o \in Outcomes : ConcInvokeCall(t, o)) /\ UNCHANGED extVars
    \/ (\E t \in Threads : ConcInvokeReturn(t)) /\ UNCHANGED extVars

Spec == Init /\ [][Next]_vars

(***************************************************************************)
(* The registry with the Caller class of the tests, whose reset() reaches  *)
(* into the registry as a friend:  event._callbacks.clear();               *)
(* The tests call it first thing in a test body, from the one thread that  *)
(* runs the tests, when no other thread is alive.                          *)
(***************************************************************************)
\* _callbacks.clear()
Clear(s) == << >>

\* TestCaller::reset() of static_event_test.cpp
StaticReset ==
    /\ mode = "static_event"
    /\ MayCall(MainThread)
    /\ Issue(MainThread, "reset", "none")
    /\ Begin(MainThread, "reset", "none")
    /\ callbacks' = Clear(callbacks)
    /\ lastop' = [lastop EXCEPT ![MainThread] = "reset"]
    /\ res' = [res EXCEPT ![MainThread] = "returned"]
    /\ UNCHANGED << mode, mutex, pc, cb, it, last, trace, threwAt >>

\* TestCaller::reset() of concurrent_static_event_test.cpp: no lock_guard
ConcReset ==
    /\ mode = "concurrent_static_event"
    /\ MayCall(MainThread)
    /\ \A u \in Threads : pc[u] = "idle"
    /\ Issue(MainThread, "reset", "none")
    /\ Begin(MainThread, "reset", "none")
    /\ callbacks' = Clear(callbacks)
    /\ lastop' = [lastop EXCEPT ![MainThread] = "reset"]
    /\ res' = [res EXCEPT ![MainThread] = "returned"]
    /\ UNCHANGED << mode, mutex, pc, cb, it, last, trace, threwAt >>

NextReset ==
    \/ Next
    \/ StaticReset /\ UNCHANGED extVars
    \/ ConcReset /\ UNCHANGED extVars

SpecReset == Init /\ [][NextReset]_vars

(***************************************************************************)
(* The concurrent class with callbacks that call operator+= or operator-=  *)
(* on the registry that is invoking them.  The thread then constructs a    *)
(* second lock_guard on the std::mutex it already owns.  std::mutex::lock  *)
(* requires that the calling thread does not own the mutex; when it does,  *)
(* the behaviour is undefined.  Of the toolchains the repository is built  *)
(* with (build.yml: ubuntu, macos, windows), the pthread mutexes block the *)
(* thread for good, and the Microsoft mutex, which keeps an owner and a    *)
(* count, lets the owner through.  Both outcomes are in the model: the     *)
(* thread may stay at the nested lock_guard forever, or pass it.           *)
(***************************************************************************)
NestedOps == {"subscribe", "unsubscribe"}

\* operator(): the callback *it is called, and its body calls operator+= or
\* operator-= on the same registry, up to the lock_guard of that operator
ConcCallbackReenters(t, op, h) ==
    /\ mode = "concurrent_static_event"
    /\ pc[t] = "loop"
    /\ it[t] # last[t]
    /\ it[t] <= Len(callbacks)
    /\ nested[t] = "none"
    /\ Issue(t, op, h)
    /\ trace' = [trace EXCEPT ![t] = Append(@, Deref(callbacks, it[t]))]
    /\ pc' = [pc EXCEPT ![t] = "nested_lock"]
    /\ nested' = [nested EXCEPT ![t] = op]
    /\ cb' = [cb EXCEPT ![t] = h]
    /\ UNCHANGED << mode, callbacks, mutex, it, last, res, lastop, threwAt, snap, hsnap,
                    hist, args, counter_was, counter, last_value, call, ret >>

\* the nested lock_guard where lock() lets the owner through: the nested
\* operator runs to its end, its lock_guard is destroyed (the owner's count
\* drops, the outer lock_guard still holds the mutex) and the callback
\* returns into the loop
ConcNestedLockPasses(t) ==
    /\ pc[t] = "nested_lock"
    /\ mutex = t
    /\ hist' = Append(hist, [t |-> t, op |-> nested[t], cb |-> cb[t]])
    /\ callbacks' = IF nested[t] = "subscribe"
                    THEN PushBack(callbacks, cb[t])
                    ELSE LET r == StdRemove(callbacks, cb[t]) IN EraseIfFound(r.seq, r.it)
    /\ nested' = [nested EXCEPT ![t] = "none"]
    /\ pc' = [pc EXCEPT ![t] = "loop"]
    /\ it' = [it EXCEPT ![t] = @ + 1]
    /\ UNCHANGED << mode, mutex, cb, last, trace, res, lastop, threwAt, snap, hsnap,
                    issued, args, counter_was, counter, last_value, call, ret >>

\* operator() after a callback changed the vector under the running loop:
\* the iterator stands beyond the elements the vector holds now, or on
\* storage push_back has left; the place holds some former function pointer
ConcInvokeCallStale(t, h, outcome) ==
    /\ mode = "concurrent_static_event"
    /\ pc[t] = "loop"
    /\ it[t] # last[t]
    /\ it[t] > Len(callbacks)
    /\ trace' = [trace EXCEPT ![t] = Append(@, h)]
    /\ threwAt' = [threwAt EXCEPT ![t] = IF outcome = "throw" THEN it[t] ELSE @]
    /\ IF Propagates(outcome)
       THEN /\ pc' = [pc EXCEPT ![t] = "idle"]
            /\ res' = [res EXCEPT ![t] = "fault"]
            /\ it' = it
            /\ MutexUnlock(t)
       ELSE /\ pc' = pc
            /\ res' = res
            /\ it' = [it EXCEPT ![t] = @ + 1]
            /\ mutex' = mutex
    /\ UNCHANGED << mode, callbacks, cb, last, lastop, snap, hsnap, issued, hist,
                    args, counter_was, counter, last_value, nested, call, ret >>

InitReentrant == Init /\ mode = "concurrent_static_event"

NextReentrant ==
    \/ (\E t \in Threads, h \in Handles : ConcSubscribe(t, h)) /\ UNCHANGED extVars
    \/ (\E t \in Threads : ConcSubscribeLock(t)) /\ UNCHANGED extVars
    \/ (\E t \in Threads : ConcSubscribePush(t)) /\ UNCHANGED extVars
    \/ (\E t \in Threads, h \in Handles : ConcUnsubscribe(t, h)) /\ UNCHANGED extVars
    \/ (\E t \in Threads : ConcUnsubscribeLock(t)) /\ UNCHANGED extVars
    \/ (\E t \in Threads : ConcUnsubscribeRemove(t)) /\ UNCHANGED extVars
    \/ (\E t \in Threads : ConcUnsubscribeErase(t)) /\ UNCHANGED extVars
    \/ (\E t \in Threads : ConcInvoke(t)) /\ UNCHANGED extVars
    \/ (\E t \in Threads : ConcInvokeLock(t)) /\ UNCHANGED extVars
    \/ (\E t \in Threads, o \in Outcomes :
            it[t] <= Len(callbacks) /\ ConcInvokeCall(t, o)) /\ UNCHANGED extVars
    \/ (\E t \in Threads : ConcInvokeReturn(t)) /\ UNCHANGED extVars
    \/ \E t \in Threads, op \in NestedOps, h \in Handles : ConcCallbackReenters(t, op, h)
    \/ \E t \in Threads : ConcNestedLockPasses(t)
    \/ \E t \in Threads, h \in Handles, o \in Outcomes : ConcInvokeCallStale(t, h, o)

SpecReentrant == InitReentrant /\ [][NextReentrant]_vars

(***************************************************************************)
(* The registry with the callbacks of the tests: CallbackTracker keeps a   *)
(* counter and the value the latest callback was given.  The owner's       *)
(* trigger_event(value) is event(value), and operator() hands its          *)
(* arguments to every callback.  The test callbacks do not throw.          *)
(***************************************************************************)
TestCallbacks == {"callback1", "callback2"}

\* the values the tests give to trigger_event
ArgValues == {7, 42}

\* callback1: ++counter; callback2: counter += 2
Increment(h) == IF h = "callback1" THEN 1 ELSE 2

\* a call that gives the callback a value-initialized int
PassArgs_Default(v) == 0

\* cb(args...): the parameter pack is passed on by value
PassArgs(v) == v

RECURSIVE SumIncrement(_)
SumIncrement(s) == IF s = << >> THEN 0 ELSE Increment(Head(s)) + SumIncrement(Tail(s))

\* the body of the test callback the loop of thread t stands on
RunCallback(t) ==
    /\ Deref(callbacks, it[t]) \in TestCallbacks
    /\ counter' = counter + Increment(Deref(callbacks, it[t]))
    /\ last_value' = PassArgs(args[t])
    /\ UNCHANGED << args, counter_was, nested, call, ret >>

\* trigger_event(v)
TriggerEvent(t, v) ==
    /\ args' = [args EXCEPT ![t] = v]
    /\ UNCHANGED << counter_was, counter, last_value, nested, call, ret >>

\* what the test reads from counter before the loop runs
LoopEntered(t) ==
    /\ counter_was' = [counter_was EXCEPT ![t] = counter]
    /\ UNCHANGED << args, counter, last_value, nested, call, ret >>

NextTracker ==
    \/ (\E h \in TestCallbacks : StaticSubscribe(h)) /\ UNCHANGED extVars
    \/ (\E h \in TestCallbacks : StaticUnsubscribe(h)) /\ UNCHANGED extVars
    \/ \E v \in ArgValues :
            StaticInvoke /\ args' = [args EXCEPT ![MainThread] = v]
                /\ counter_was' = [counter_was EXCEPT ![MainThread] = counter]
                /\ UNCHANGED << counter, last_value, nested, call, ret >>
    \/ StaticInvokeCall("return") /\ RunCallback(MainThread)
    \/ StaticInvokeReturn /\ UNCHANGED extVars
    \/ (\E t \in Threads, h \in TestCallbacks : ConcSubscribe(t, h)) /\ UNCHANGED extVars
    \/ (\E t \in Threads : ConcSubscribeLock(t)) /\ UNCHANGED extVars
    \/ (\E t \in Threads : ConcSubscribePush(t)) /\ UNCHANGED extVars
    \/ (\E t \in Threads, h \in TestCallbacks : ConcUnsubscribe(t, h)) /\ UNCHANGED extVars
    \/ (\E t \in Threads : ConcUnsubscribeLock(t)) /\ UNCHANGED extVars
    \/ (\E t \in Threads : ConcUnsubscribeRemove(t)) /\ UNCHANGED extVars
    \/ (\E t \in Threads : ConcUnsubscribeErase(t)) /\ UNCHANGED extVars
    \/ \E t \in Threads, v \in ArgValues : ConcInvoke(t) /\ TriggerEvent(t, v)
    \/ \E t \in Threads : ConcInvokeLock(t) /\ LoopEntered(t)
    \/ \E t \in Threads : ConcInvokeCall(t, "return") /\ RunCallback(t)
    \/ (\E t \in Threads : ConcInvokeReturn(t)) /\ UNCHANGED extVars

SpecTracker == Init /\ [][NextTracker]_vars

(***************************************************************************)
(* The test ConcurrentSubscribeUnsubscribe: after reset(), thread t1 runs  *)
(* subscribe_fn, a loop of "event += callback1; sleep; event -= callback1",*)
(* and thread t2 runs invoke_fn, a loop of "trigger_event(i); sleep".  The *)
(* loop variable i of each lambda is read off the operators the thread has *)
(* called.  The test has 1000 turns per loop, the model has Iterations.    *)
(* sleep_for changes no state.  The scheduler lets a thread that can step  *)
(* step at some time, which is the fairness of SpecLoops.                  *)
(***************************************************************************)
SubscribeThread == 1
InvokeThread == 2

\* subscribe_fn: event += &CallbackTracker::callback1
SubscribeFnSubscribe ==
    /\ pc[SubscribeThread] = "idle"
    /\ Len(issued[SubscribeThread]) < 2 * Iterations
    /\ Len(issued[SubscribeThread]) % 2 = 0
    /\ Issue(SubscribeThread, "subscribe", "callback1")
    /\ pc' = [pc EXCEPT ![SubscribeThread] = "sub_lock"]
    /\ cb' = [cb EXCEPT ![SubscribeThread] = "callback1"]
    /\ lastop' = [lastop EXCEPT ![SubscribeThread] = "subscribe"]
    /\ res' = [res EXCEPT ![SubscribeThread] = "none"]
    /\ UNCHANGED << mode, callbacks, mutex, it, last, trace, threwAt, snap, hsnap, hist >>

\* subscribe_fn: event -= &CallbackTracker::callback1
SubscribeFnUnsubscribe ==
    /\ pc[SubscribeThread] = "idle"
    /\ Len(issued[SubscribeThread]) < 2 * Iterations
    /\ Len(issued[SubscribeThread]) % 2 = 1
    /\ Issue(SubscribeThread, "unsubscribe", "callback1")
    /\ pc' = [pc EXCEPT ![SubscribeThread] = "unsub_lock"]
    /\ cb' = [cb EXCEPT ![SubscribeThread] = "callback1"]
    /\ lastop' = [lastop EXCEPT ![SubscribeThread] = "unsubscribe"]
    /\ res' = [res EXCEPT ![SubscribeThread] = "none"]
    /\ UNCHANGED << mode, callbacks, mutex, it, last, trace, threwAt, snap, hsnap, hist >>

\* invoke_fn: TestCaller::trigger_event(i)
InvokeFnTrigger ==
    /\ pc[InvokeThread] = "idle"
    /\ Len(issued[InvokeThread]) < Iterations
    /\ Issue(InvokeThread, "invoke", "none")
    /\ pc' = [pc EXCEPT ![InvokeThread] = "inv_lock"]
    /\ lastop' = [lastop EXCEPT ![InvokeThread] = "invoke"]
    /\ res' = [res EXCEPT ![InvokeThread] = "none"]
    /\ trace' = [trace EXCEPT ![InvokeThread] = << >>]
    /\ threwAt' = [threwAt EXCEPT ![InvokeThread] = 0]
    /\ TriggerEvent(InvokeThread, Len(issued[InvokeThread]))
    /\ UNCHANGED << mode, callbacks, mutex, cb, it, last, snap, hsnap, hist >>

\* the lambda of a thread has left its loop: join() returns
Joined(t) ==
    /\ pc[t] = "idle"
    /\ Len(issued[t]) = IF t = SubscribeThread THEN 2 * Iterations ELSE Iterations

InitLoops == Init /\ mode = "concurrent_static_event"

NextLoops ==
    \/ SubscribeFnSubscribe /\ UNCHANGED extVars
    \/ (\E t \in Threads : ConcSubscribeLock(t)) /\ UNCHANGED extVars
    \/ (\E t \in Threads : ConcSubscribePush(t)) /\ UNCHANGED extVars
    \/ SubscribeFnUnsubscribe /\ UNCHANGED extVars
    \/ (\E t \in Threads : ConcUnsubscribeLock(t)) /\ UNCHANGED extVars
    \/ (\E t \in Threads : ConcUnsubscribeRemove(t)) /\ UNCHANGED extVars
    \/ (\E t \in Threads : ConcUnsubscribeErase(t)) /\ UNCHANGED extVars
    \/ InvokeFnTrigger
    \/ \E t \in Threads : ConcInvokeLock(t) /\ LoopEntered(t)
    \/ \E t \in Threads : ConcInvokeCall(t, "return") /\ RunCallback(t)
    \/ (\E t \in Threads : ConcInvokeReturn(t)) /\ UNCHANGED extVars

SpecLoops == InitLoops /\ [][NextLoops]_vars /\ WF_vars(NextLoops)

(***************************************************************************)
(* The string utilities of swe.cpp.  A string is the sequence of its code  *)
(* units, each the bit pattern of a char (CharBits bits) or of a wchar_t   *)
(* (WCharBits bits, the 16-bit wchar_t of the Windows build; the 32-bit    *)
(* one holds the same code units).  In "str[i] ^ key[i % key_length]" both *)
(* operands are promoted to int, the XOR is an int, and operator+= of the  *)
(* string converts it back to the character type.  char is signed on the   *)
(* builds of build.yml.  The int of the model has IntBits bits; the int of *)
(* the builds has more, and the bits above the characters are the sign     *)
(* extension in both.                                                      *)
(***************************************************************************)
CharBits == 8
WCharBits == 16

\* code units the strings of the model are made of: NUL, 'H' and 'k' of the
\* test, and one unit with the top bit of its type set
Chars == {0, 72, 107, 200}
WChars == {0, 72, 107, 40000}

RECURSIVE Pow2(_)
Pow2(n) == IF n = 0 THEN 1 ELSE 2 * Pow2(n - 1)

\* the strings over an alphabet, from length lo up to length hi
Strs(alphabet, lo, hi) == UNION { [1 .. m -> alphabet] : m \in lo .. hi }

\* bitwise exclusive or of two bit patterns
RECURSIVE BitXor(_, _)
BitXor(a, b) ==
    IF a = 0 THEN b
    ELSE IF b = 0 THEN a
    ELSE ((a + b) % 2) + 2 * BitXor(a \div 2, b \div 2)

\* integral promotion of a character to int
CharToInt(wide, c) ==
    IF ~wide /\ c >= Pow2(CharBits - 1) THEN c - Pow2(CharBits) ELSE c

\* operator^ on two ints, in two's complement
IntXor(a, b) ==
    LET m == Pow2(IntBits)
        x == BitXor(a % m, b % m)
    IN IF x >= m \div 2 THEN x - m ELSE x

\* the conversion of the int to the character type operator+= takes
IntToChar(wide, i) == i % Pow2(IF wide THEN WCharBits ELSE CharBits)

\* a key index that stays on the last character instead of wrapping
KeyIndex_NoWrap(i, key_length) == IF i < key_length THEN i ELSE key_length - 1

\* i % key_length
KeyIndex(i, key_length) == i % key_length

\* the loop of str_obfuscate / wstr_obfuscate from index i on (0-based)
RECURSIVE ObfuscateLoop(_, _, _, _, _)
ObfuscateLoop(wide, str, key, i, result) ==
    IF ~(i < Len(str)) THEN result
    ELSE ObfuscateLoop(wide, str, key, i + 1,
            Append(result,
                   IntToChar(wide, IntXor(CharToInt(wide, str[i + 1]),
                                          CharToInt(wide, key[KeyIndex(i, Len(key)) + 1])))))

str_obfuscate(str, key) == ObfuscateLoop(FALSE, str, key, 0, << >>)
str_deobfuscate(str, key) == str_obfuscate(str, key)
wstr_obfuscate(str, key) == ObfuscateLoop(TRUE, str, key, 0, << >>)
wstr_deobfuscate(str, key) == wstr_obfuscate(str, key)

\* the utilities leave the registry and the test callbacks alone
UtilFrame == UNCHANGED << regVars, args, counter_was, counter, last_value, nested >>

\* obfuscate(input, key) with a key that is not empty
ObfuscateCall ==
    /\ call.fn = "none"
    /\ \E wide \in BOOLEAN :
         \E str \in Strs(IF wide THEN WChars ELSE Chars, 0, MaxStrLen),
            key \in Strs(IF wide THEN WChars ELSE Chars, 1, MaxKeyLen) :
            /\ call' = [fn |-> IF wide THEN "wstr_obfuscate" ELSE "str_obfuscate",
                        str |-> str, key |-> key]
            /\ ret' = << IF wide THEN wstr_obfuscate(str, key) ELSE str_obfuscate(str, key) >>
    /\ UtilFrame

\* obfuscate(obfuscated, key)
ObfuscateAgain ==
    /\ call.fn \in {"str_obfuscate", "wstr_obfuscate"}
    /\ Len(ret) = 1
    /\ ret' = Append(ret, IF call.fn = "wstr_obfuscate"
                          THEN wstr_obfuscate(ret[1], call.key)
                          ELSE str_obfuscate(ret[1], call.key))
    /\ call' = call
    /\ UtilFrame

\* deobfuscate(obfuscated, key)
DeobfuscateCall ==
    /\ call.fn \in {"str_obfuscate", "wstr_obfuscate"}
    /\ Len(ret) = 2
    /\ ret' = Append(ret, IF call.fn = "wstr_obfuscate"
                          THEN wstr_deobfuscate(ret[1], call.key)
                          ELSE str_deobfuscate(ret[1], call.key))
    /\ call' = call
    /\ UtilFrame

NextObfuscate == ObfuscateCall \/ ObfuscateAgain \/ DeobfuscateCall

SpecObfuscate == Init /\ [][NextObfuscate]_vars

\* key[i % key_length] with key_length = 0: the remainder by zero is
\* undefined.  Where the division traps the call faults; where it yields a
\* value the index is past the key and whatever character lies there is read.
\* garbage is what is read at the positions 0 .. Len(str) - 1.
EmptyKeyOutcomes(wide, str) ==
    {[fault |-> TRUE, outside |-> FALSE, ret |-> << >>]} \cup
    {[fault |-> FALSE, outside |-> TRUE,
      ret |-> << ObfuscateLoop(wide, str, garbage, 0, << >>) >>] :
        garbage \in Strs(IF wide THEN WChars ELSE Chars, Len(str), Len(str))}

\* what a call of str_obfuscate or wstr_obfuscate can do
ObfuscateOutcomes(wide, str, key) ==
    IF Len(key) = 0 /\ Len(str) > 0
    THEN EmptyKeyOutcomes(wide, str)
    ELSE {[fault |-> FALSE, outside |-> FALSE,
           ret |-> << IF wide THEN wstr_obfuscate(str, key) ELSE str_obfuscate(str, key) >>]}

\* str_obfuscate(str, key) or wstr_obfuscate(str, key) with any key, the
\* empty one included
ObfuscateAnyKey ==
    /\ call.fn = "none"
    /\ \E wide \in BOOLEAN :
         \E str \in Strs(IF wide THEN WChars ELSE Chars, 0, MaxStrLen),
            key \in Strs(IF wide THEN WChars ELSE Chars, 0, MaxKeyLen) :
            \E o \in ObfuscateOutcomes(wide, str, key) :
               /\ call' = [fn |-> IF wide THEN "wstr_obfuscate" ELSE "str_obfuscate",
                           str |-> str, key |-> key,
                           fault |-> o.fault, outside |-> o.outside]
               /\ ret' = o.ret
    /\ UtilFrame

NextAnyKey == ObfuscateAnyKey

SpecAnyKey == Init /\ [][NextAnyKey]_vars

(***************************************************************************)
(* ci_map.hpp: the case-insensitive hash and equality functors.  The       *)
(* program never calls setlocale, so tolower and towlower are those of the *)
(* "C" locale: they map 'A'..'Z' and nothing else.  ci_equal gives tolower *)
(* an unsigned char; ci_hash gives it a plain char, which is negative for  *)
(* a code unit with the top bit set.  tolower is not defined for such an   *)
(* argument (other than EOF): the C library of the ubuntu build returns    *)
(* the value of the unsigned char, those of the windows and macos builds   *)
(* return the argument itself.  size_t has SizeBits bits in the model.     *)
(***************************************************************************)
Builds == {"ubuntu", "windows", "macos"}

\* code units of the keys: 'H', 'h', '@', and two with the top bit set
HashChars == {72, 104, 64, 200, 232}
HashWChars == {72, 104, 64, 200, 40000}

\* std::tolower(int) in the "C" locale
tolower(build, c) ==
    IF c >= 65 /\ c <= 90 THEN c + 32
    ELSE IF c + 1 >= 0 THEN c
    ELSE IF build = "ubuntu" THEN c + Pow2(CharBits) ELSE c

\* std::towlower(wint_t) in the "C" locale
towlower(c) == IF c >= 65 /\ c <= 90 THEN c + 32 ELSE c

\* static_cast<unsigned char>(char): the code unit as a value 0..255
ToUnsignedChar(c) == c % Pow2(CharBits)

\* the conversion of an int to size_t
ToSizeT(i) == i % Pow2(SizeBits)

\* hash << 5 on size_t
ShiftLeft5(hash) == (hash * Pow2(5)) % Pow2(SizeBits)

\* a hash that adds the character as it is
HashChar_CaseSensitive(build, wide, c) == CharToInt(wide, c)

\* std::tolower(c) with char c / std::towlower(c) with wchar_t c
HashChar(build, wide, c) ==
    IF wide THEN towlower(c) ELSE tolower(build, CharToInt(FALSE, c))

\* the loop of ci_hash / wci_hash over the characters from position i on
RECURSIVE HashLoop(_, _, _, _, _)
HashLoop(build, wide, str, i, hash) ==
    IF i > Len(str) THEN hash
    ELSE HashLoop(build, wide, str, i + 1,
            (ShiftLeft5(hash) + hash + ToSizeT(HashChar(build, wide, str[i]))) % Pow2(SizeBits))

ci_hash(build, str) == HashLoop(build, FALSE, str, 1, 0)
wci_hash(build, str) == HashLoop(build, TRUE, str, 1, 0)

\* str_equals(str1, str2, ordinal_ignore_case)
str_equals_ignore_case(build, str1, str2) ==
    IF Len(str1) # Len(str2) THEN FALSE
    ELSE \A i \in 1 .. Len(str1) :
            tolower(build, ToUnsignedChar(str1[i])) = tolower(build, ToUnsignedChar(str2[i]))

\* wstr_equals(str1, str2, ordinal_ignore_case)
wstr_equals_ignore_case(str1, str2) ==
    IF Len(str1) # Len(str2) THEN FALSE
    ELSE \A i \in 1 .. Len(str1) : towlower(str1[i]) = towlower(str2[i])

ci_equal(build, lhs, rhs) == str_equals_ignore_case(build, lhs, rhs)
wci_equal(build, lhs, rhs) == wstr_equals_ignore_case(lhs, rhs)

\* hash_fn(a) on some build
HashFirst ==
    /\ call.fn = "none"
    /\ \E wide \in BOOLEAN, build \in Builds :
         \E a \in Strs(IF wide THEN HashWChars ELSE HashChars, 0, MaxHashLen),
            b \in Strs(IF wide THEN HashWChars ELSE HashChars, 0, MaxHashLen) :
            /\ call' = [fn |-> IF wide THEN "wci_hash" ELSE "ci_hash",
                        build |-> build, a |-> a, b |-> b]
            /\ ret' = << IF wide THEN wci_hash(build, a) ELSE ci_hash(build, a) >>
    /\ UtilFrame

\* hash_fn(b)
HashSecond ==
    /\ call.fn \in {"ci_hash", "wci_hash"}
    /\ Len(ret) = 1
    /\ ret' = Append(ret, IF call.fn = "wci_hash" THEN wci_hash(call.build, call.b)
                          ELSE ci_hash(call.build, call.b))
    /\ call' = call
    /\ UtilFrame

\* ci_equal()(a, b) / wci_equal()(a, b)
EqualCall ==
    /\ call.fn \in {"ci_hash", "wci_hash"}
    /\ Len(ret) = 2
    /\ ret' = Append(ret, IF call.fn = "wci_hash" THEN wci_equal(call.build, call.a, call.b)
                          ELSE ci_equal(call.build, call.a, call.b))
    /\ call' = call
    /\ UtilFrame

NextHash == HashFirst \/ HashSecond \/ EqualCall

SpecHash == Init /\ [][NextHash]_vars

(***************************************************************************)
(* ci_map / wci_map: std::map with ci_equal / wci_equal as its Compare.     *)
(* The map is held as the sequence of its keys in the order of the tree    *)
(* (the values play no part).  insert() walks down the tree comparing the  *)
(* new key with the key of each node; the three standard libraries of the  *)
(* builds do the walk in their own way.  std::map requires Compare to be a *)
(* strict weak ordering, which an equality is not, so the shape of the     *)
(* tree is left open: any node of a range may be the root of its subtree.  *)
(***************************************************************************)
\* code units of the keys: 'A', 'a', 'b'
MapChars == {65, 97, 98}

\* key_comp()(lhs, rhs) of the map named by w
KeyComp(w, lhs, rhs) ==
    IF w.fn = "wci_map" THEN wci_equal(w.build, lhs, rhs) ELSE ci_equal(w.build, lhs, rhs)

\* libstdc++ _M_get_insert_unique_pos: the walk down, keeping the last
\* node y and the last comparison
RECURSIVE GnuLeaves(_, _, _, _, _, _, _)
GnuLeaves(w, keys, k, lo, hi, y, comp) ==
    IF lo > hi THEN { [y |-> y, comp |-> comp] }
    ELSE UNION { IF KeyComp(w, k, keys[m])
                 THEN GnuLeaves(w, keys, k, lo, m - 1, m, TRUE)
                 ELSE GnuLeaves(w, keys, k, m + 1, hi, m, FALSE) : m \in lo .. hi }

\* libstdc++: insert unless the node before the leaf is not less than k
GnuInsert(w, keys, k) ==
    IF keys = << >> THEN { [at |-> 1, inserted |-> TRUE] }
    ELSE { LET j == IF l.comp THEN l.y - 1 ELSE l.y
               pos == IF l.comp THEN l.y ELSE l.y + 1
           IN IF (l.comp /\ l.y = 1) \/ KeyComp(w, keys[j], k)
              THEN [at |-> pos, inserted |-> TRUE]
              ELSE [at |-> j, inserted |-> FALSE]
           : l \in GnuLeaves(w, keys, k, 1, Len(keys), 0, TRUE) }

\* libc++ __find_equal: left if k < node, right if node < k, else found
RECURSIVE LibcxxInsert(_, _, _, _, _)
LibcxxInsert(w, keys, k, lo, hi) ==
    IF lo > hi THEN { [at |-> lo, inserted |-> TRUE] }
    ELSE UNION { IF KeyComp(w, k, keys[m]) THEN LibcxxInsert(w, keys, k, lo, m - 1)
                 ELSE IF KeyComp(w, keys[m], k) THEN LibcxxInsert(w, keys, k, m + 1, hi)
                 ELSE { [at |-> m, inserted |-> FALSE] } : m \in lo .. hi }

\* the Microsoft library's _Find_lower_bound: the walk down, keeping the
\* last node that is not less than k
RECURSIVE MsvcLeaves(_, _, _, _, _, _)
MsvcLeaves(w, keys, k, lo, hi, bound) ==
    IF lo > hi THEN { [at |-> lo, bound |-> bound] }
    ELSE UNION { IF KeyComp(w, keys[m], k)
                 THEN MsvcLeaves(w, keys, k, m + 1, hi, bound)
                 ELSE MsvcLeaves(w, keys, k, lo, m - 1, m) : m \in lo .. hi }

\* the Microsoft library: a duplicate if k is not less than the bound
MsvcInsert(w, keys, k) ==
    { IF l.bound # 0 /\ ~KeyComp(w, k, keys[l.bound])
      THEN [at |-> l.bound, inserted |-> FALSE]
      ELSE [at |-> l.at, inserted |-> TRUE]
      : l \in MsvcLeaves(w, keys, k, 1, Len(keys), 0) }

\* what insert(k) may do on the build of w
InsertOutcomes(w, keys, k) ==
    CASE w.build = "ubuntu" -> GnuInsert(w, keys, k)
      [] w.build = "macos" -> LibcxxInsert(w, keys, k, 1, Len(keys))
      [] OTHER -> MsvcInsert(w, keys, k)

\* the keys in tree order with k as the new node at position at
InsertAt(keys, at, k) ==
    SubSeq(keys, 1, at - 1) \o << k >> \o SubSeq(keys, at, Len(keys))

\* swe::ci_map<T> m; / swe::wci_map<T> m;
MapConstruct ==
    /\ call.fn = "none"
    /\ \E fn \in {"ci_map", "wci_map"}, build \in Builds :
         call' = [fn |-> fn, build |-> build, inserted |-> << >>]
    /\ ret' = << >>
    /\ UtilFrame

\* m.insert({k, value})
MapInsert ==
    /\ call.fn \in {"ci_map", "wci_map"}
    /\ Len(call.inserted) < MaxInserts
    /\ \E k \in Strs(MapChars, 1, 1) :
         \E r \in InsertOutcomes(call, ret, k) :
            /\ ret' = IF r.inserted THEN InsertAt(ret, r.at, k) ELSE ret
            /\ call' = [call EXCEPT !.inserted = Append(@, k)]
    /\ UtilFrame

NextMap == MapConstruct \/ MapInsert

SpecMap == Init /\ [][NextMap]_vars

(***************************************************************************)
(* str_split / str_join and their wide twins, which are the same code over *)
(* wchar_t.  The options are the int values of string_split_options.       *)
(* str_split reads tokens with std::getline from a stream over the string: *)
(* getline fails when the stream is at its end, else it takes the          *)
(* characters up to the next delimiter, which it drops, or up to the end.  *)
(***************************************************************************)
none == 0
remove_empty_entries == 1
trim_left == 2
trim_right == 4
trim == 6

SplitOptions == 0 .. 7

\* code units of the split strings: ',', ' ', and a letter
SplitChars == {44, 32, 97}
SplitWChars == {44, 32, 40000}
Delimiters == {44, 32}

\* the default of the whitespace parameter: " \t\n\r\f\v"
Whitespace == {32, 9, 10, 13, 12, 11}

\* std::string::npos
Npos == Pow2(SizeBits) - 1

\* operator& of two ints
RECURSIVE BitAnd(_, _)
BitAnd(a, b) ==
    IF a = 0 \/ b = 0 THEN 0
    ELSE ((a % 2) * (b % 2)) + 2 * BitAnd(a \div 2, b \div 2)

has_flag(options, flag) == BitAnd(options, flag) = flag

\* str.find_first_not_of(whitespace), 0-based
find_first_not_of(str, whitespace) ==
    LET at == { i \in 1 .. Len(str) : str[i] \notin whitespace }
    IN IF at = {} THEN Npos ELSE (CHOOSE i \in at : \A j \in at : i <= j) - 1

\* str.find_last_not_of(whitespace), 0-based
find_last_not_of(str, whitespace) ==
    LET at == { i \in 1 .. Len(str) : str[i] \notin whitespace }
    IN IF at = {} THEN Npos ELSE (CHOOSE i \in at : \A j \in at : j <= i) - 1

\* str.substr(pos, count), with pos <= size
substr(str, pos, count) ==
    SubSeq(str, pos + 1, IF count > Len(str) - pos THEN Len(str) ELSE pos + count)

str_trim(str, whitespace) ==
    LET begin == find_first_not_of(str, whitespace)
        end == find_last_not_of(str, whitespace)
    IN IF begin = Npos THEN << >> ELSE substr(str, begin, end - begin + 1)

str_trim_left(str, whitespace) ==
    LET begin == find_first_not_of(str, whitespace)
    IN IF begin = Npos THEN << >> ELSE substr(str, begin, Npos)

str_trim_right(str, whitespace) ==
    LET end == find_last_not_of(str, whitespace)
    IN IF end = Npos THEN << >> ELSE substr(str, 0, end + 1)

\* std::getline(ss, token, delimiter) with the stream at position pos
getline(str, pos, delimiter) ==
    IF pos >= Len(str) THEN [ok |-> FALSE, token |-> << >>, pos |-> pos]
    ELSE LET at == { i \in pos + 1 .. Len(str) : str[i] = delimiter }
         IN IF at = {}
            THEN [ok |-> TRUE, token |-> SubSeq(str, pos + 1, Len(str)), pos |-> Len(str)]
            ELSE LET j == CHOOSE i \in at : \A k \in at : i <= k
                 IN [ok |-> TRUE, token |-> SubSeq(str, pos + 1, j - 1), pos |-> j]

\* the trimming of one token
TrimToken(token, options) ==
    IF has_flag(options, trim_left)
    THEN IF has_flag(options, trim_right) THEN str_trim(token, Whitespace)
         ELSE str_trim_left(token, Whitespace)
    ELSE IF has_flag(options, trim_right) THEN str_trim_right(token, Whitespace)
    ELSE token

\* the while loop of str_split from stream position pos on
RECURSIVE SplitLoop(_, _, _, _, _)
SplitLoop(str, delimiter, options, pos, result) ==
    LET g == getline(str, pos, delimiter)
    IN IF ~g.ok THEN result
       ELSE IF g.token = << >> /\ has_flag(options, remove_empty_entries)
       THEN SplitLoop(str, delimiter, options, g.pos, result)
       ELSE SplitLoop(str, delimiter, options, g.pos,
                      Append(result, TrimToken(g.token, options)))

\* a split that does not add the piece after a trailing delimiter
SplitTail_Never(str, delimiter, options, result) == result

\* the empty piece after a trailing delimiter
SplitTail(str, delimiter, options, result) ==
    IF str # << >> /\ str[Len(str)] = delimiter
          /\ ~has_flag(options, remove_empty_entries)
    THEN Append(result, << >>)
    ELSE result

str_split(str, delimiter, options) ==
    IF str = << >> THEN << >>
    ELSE SplitTail(str, delimiter, options, SplitLoop(str, delimiter, options, 0, << >>))

wstr_split(str, delimiter, options) == str_split(str, delimiter, options)

\* the loop of str_join from the element at position i on
RECURSIVE JoinLoop(_, _, _, _)
JoinLoop(strings, delimiter, i, oss) ==
    IF i > Len(strings) THEN oss
    ELSE JoinLoop(strings, delimiter, i + 1, oss \o delimiter \o strings[i])

\* a join that writes the delimiter before the first string as well
str_join_Leading(strings, delimiter) == JoinLoop(strings, delimiter, 1, << >>)

str_join(strings, delimiter) ==
    IF strings = << >> THEN << >>
    ELSE JoinLoop(strings, delimiter, 2, strings[1])

wstr_join(strings, delimiter) == str_join(strings, delimiter)

\* split(input, delimiter, options)
SplitCall ==
    /\ call.fn = "none"
    /\ \E wide \in BOOLEAN, delimiter \in Delimiters, options \in SplitOptions :
         \E str \in Strs(IF wide THEN SplitWChars ELSE SplitChars, 0, MaxSplitLen) :
            /\ call' = [fn |-> IF wide THEN "wstr_split" ELSE "str_split",
                        str |-> str, delimiter |-> delimiter, options |-> options]
            /\ ret' = << IF wide THEN wstr_split(str, delimiter, options)
                         ELSE str_split(str, delimiter, options) >>
    /\ UtilFrame

\* join(pieces, delimiter) on what split returned
JoinCall ==
    /\ call.fn \in {"str_split", "wstr_split"}
    /\ Len(ret) = 1
    /\ ret' = Append(ret, IF call.fn = "wstr_split"
                          THEN wstr_join(ret[1], << call.delimiter >>)
                          ELSE str_join(ret[1], << call.delimiter >>))
    /\ call' = call
    /\ UtilFrame

NextSplit == SplitCall \/ JoinCall

SpecSplit == Init /\ [][NextSplit]_vars

(***************************************************************************)
(* str_to_slug.  isalnum and tolower get an unsigned char and are those of *)
(* the "C" locale: digits and the letters 'A'..'Z', 'a'..'z'.              *)
(***************************************************************************)
\* code units of the slug inputs: 'H', '1', ' ', '_', and one above ASCII
SlugChars == {72, 49, 32, 95, 200}

\* separators that are not alphanumeric: the default '_', and ' '
Separators == {95, 32}

\* std::isalnum(int) in the "C" locale
isalnum(c) == (c >= 48 /\ c <= 57) \/ (c >= 65 /\ c <= 90) \/ (c >= 97 /\ c <= 122)

\* the loop of str_to_slug over the characters from position i on
RECURSIVE SlugLoop(_, _, _, _, _, _)
SlugLoop(build, str, separator, i, result, last_was_sep) ==
    IF i > Len(str) THEN result
    ELSE IF isalnum(ToUnsignedChar(str[i]))
    THEN SlugLoop(build, str, separator, i + 1,
                  Append(result, IntToChar(FALSE, tolower(build, ToUnsignedChar(str[i])))),
                  FALSE)
    ELSE IF ~last_was_sep
    THEN SlugLoop(build, str, separator, i + 1, Append(result, separator), TRUE)
    ELSE SlugLoop(build, str, separator, i + 1, result, last_was_sep)

\* a slug that keeps its trailing separator
PopTrailing_Keep(result, separator) == result

\* if (!result.empty() && result.back() == separator) result.pop_back()
PopTrailing(result, separator) ==
    IF result # << >> /\ result[Len(result)] = separator
    THEN SubSeq(result, 1, Len(result) - 1)
    ELSE result

str_to_slug(build, str, separator) ==
    PopTrailing(SlugLoop(build, str, separator, 1, << >>, TRUE), separator)

\* to_slug(input, separator)
SlugCall ==
    /\ call.fn = "none"
    /\ \E build \in Builds, separator \in Separators,
          str \in Strs(SlugChars, 0, MaxSlugLen) :
            /\ call' = [fn |-> "str_to_slug", build |-> build, str |-> str,
                        separator |-> separator]
            /\ ret' = << str_to_slug(build, str, separator) >>
    /\ UtilFrame

NextSlug == SlugCall

SpecSlug == Init /\ [][NextSlug]_vars

(***************************************************************************)
(* static_event with callbacks that call operator+= or operator-= on the   *)
(* registry that is invoking them.  The range-for of operator() holds the  *)
(* iterator of its turn and the end iterator it took before the first      *)
(* turn.  operator-= moves the elements down and shortens the vector, so   *)
(* the cached end lies beyond the elements; push_back may move the storage *)
(* (whether it does hangs on the capacity the library has given the        *)
(* vector), after which both iterators point into storage the vector has   *)
(* left.  A read through such an iterator is undefined: the place holds    *)
(* some function pointer the vector held before.                           *)
(***************************************************************************)
\* operator(): the callback *it is called, and its body calls operator+= or
\* operator-= on the same registry, which runs to its end
StaticCallbackReenters(op, h, reallocates) ==
    /\ mode = "static_event"
    /\ pc[MainThread] = "loop"
    /\ it[MainThread] # last[MainThread]
    /\ it[MainThread] <= Len(callbacks)
    /\ nested[MainThread] = "none"
    /\ SumLen(issued, Threads) < MaxOps
    /\ Issue(MainThread, op, h)
    /\ hist' = Append(hist, [t |-> MainThread, op |-> op, cb |-> h])
    /\ trace' = [trace EXCEPT ![MainThread] = Append(@, Deref(callbacks, it[MainThread]))]
    /\ callbacks' = IF op = "subscribe"
                    THEN PushBack(callbacks, h)
                    ELSE LET r == StdRemove(callbacks, h) IN EraseIfFound(r.seq, r.it)
    /\ nested' = [nested EXCEPT ![MainThread] =
                    IF op = "subscribe" /\ reallocates THEN "dangling" ELSE @]
    /\ it' = [it EXCEPT ![MainThread] = @ + 1]
    /\ UNCHANGED << mode, mutex, pc, cb, last, res, lastop, threwAt, snap, hsnap,
                    args, counter_was, counter, last_value, call, ret >>

\* operator(): a turn of the loop whose iterator is beyond the elements or
\* points into storage push_back has left
StaticInvokeCallStale(h, outcome) ==
    /\ mode = "static_event"
    /\ pc[MainThread] = "loop"
    /\ it[MainThread] # last[MainThread]
    /\ it[MainThread] > Len(callbacks) \/ nested[MainThread] = "dangling"
    /\ trace' = [trace EXCEPT ![MainThread] = Append(@, h)]
    /\ threwAt' = [threwAt EXCEPT ![MainThread] = IF outcome = "throw" THEN it[MainThread] ELSE @]
    /\ IF Propagates(outcome)
       THEN /\ pc' = [pc EXCEPT ![MainThread] = "idle"]
            /\ res' = [res EXCEPT ![MainThread] = "fault"]
            /\ it' = it
       ELSE /\ pc' = pc
            /\ res' = res
            /\ it' = [it EXCEPT ![MainThread] = @ + 1]
    /\ UNCHANGED << mode, callbacks, mutex, cb, last, lastop, snap, hsnap, issued, hist,
                    extVars >>

InitStaticReentrant == Init /\ mode = "static_event"

NextStaticReentrant ==
    \/ (\E h \in Handles : StaticSubscribe(h)) /\ UNCHANGED extVars
    \/ (\E h \in Handles : StaticUnsubscribe(h)) /\ UNCHANGED extVars
    \/ StaticInvoke /\ nested' = [nested EXCEPT ![MainThread] = "none"]
          /\ UNCHANGED << args, counter_was, counter, last_value, call, ret >>
    \/ (\E o \in Outcomes :
            /\ it[MainThread] <= Len(callbacks)
            /\ nested[MainThread] = "none"
            /\ StaticInvokeCall(o)) /\ UNCHANGED extVars
    \/ StaticInvokeReturn /\ UNCHANGED extVars
    \/ \E op \in NestedOps, h \in Handles, reallocates \in BOOLEAN :
            StaticCallbackReenters(op, h, reallocates)
    \/ \E h \in Handles, o \in Outcomes : StaticInvokeCallStale(h, o)

SpecStaticReentrant == InitStaticReentrant /\ [][NextStaticReentrant]_vars

(***************************************************************************)
(* Threads that never stop calling the concurrent class, as the loops of   *)
(* the concurrency test do without their iteration count.  No record of    *)
(* past calls is kept, so the registry has finitely many states.           *)
(***************************************************************************)
\* the callbacks subscribed or about to be
Pending == Len(callbacks) + Cardinality({u \in Threads : pc[u] \in {"sub_lock", "sub_push"}})

\* a thread calls operator+=(cb)
RunSubscribe(t, h) ==
    /\ pc[t] = "idle"
    /\ Pending < MaxCallbacks
    /\ pc' = [pc EXCEPT ![t] = "sub_lock"]
    /\ cb' = [cb EXCEPT ![t] = h]
    /\ lastop' = [lastop EXCEPT ![t] = "subscribe"]
    /\ res' = [res EXCEPT ![t] = "none"]
    /\ UNCHANGED << mode, callbacks, mutex, it, last, trace, threwAt, snap, hsnap,
                    issued, hist >>

\* operator+=: the lock_guard is constructed
RunSubscribeLock(t) ==
    /\ pc[t] = "sub_lock"
    /\ MutexLock(t)
    /\ pc' = [pc EXCEPT ![t] = "sub_push"]
    /\ UNCHANGED << mode, callbacks, cb, it, last, trace, res, lastop, threwAt, snap,
                    hsnap, issued, hist >>

\* a thread calls operator-=(cb)
RunUnsubscribe(t, h) ==
    /\ pc[t] = "idle"
    /\ pc' = [pc EXCEPT ![t] = "unsub_lock"]
    /\ cb' = [cb EXCEPT ![t] = h]
    /\ lastop' = [lastop EXCEPT ![t] = "unsubscribe"]
    /\ res' = [res EXCEPT ![t] = "none"]
    /\ UNCHANGED << mode, callbacks, mutex, it, last, trace, threwAt, snap, hsnap,
                    issued, hist >>

\* operator-=: the lock_guard is constructed
RunUnsubscribeLock(t) ==
    /\ pc[t] = "unsub_lock"
    /\ MutexLock(t)
    /\ pc' = [pc EXCEPT ![t] = "unsub_remove"]
    /\ UNCHANGED << mode, callbacks, cb, it, last, trace, res, lastop, threwAt, snap,
                    hsnap, issued, hist >>

\* a thread calls operator()(args...) through the Caller class
RunInvoke(t) ==
    /\ pc[t] = "idle"
    /\ pc' = [pc EXCEPT ![t] = "inv_lock"]
    /\ lastop' = [lastop EXCEPT ![t] = "invoke"]
    /\ res' = [res EXCEPT ![t] = "none"]
    /\ trace' = [trace EXCEPT ![t] = << >>]
    /\ threwAt' = [threwAt EXCEPT ![t] = 0]
    /\ UNCHANGED << mode, callbacks, mutex, cb, it, last, snap, hsnap, issued, hist >>

\* operator(): the lock_guard is constructed and the loop begins
RunInvokeLock(t) ==
    /\ pc[t] = "inv_lock"
    /\ MutexLock(t)
    /\ LoopBegin(t)
    /\ pc' = [pc EXCEPT ![t] = "loop"]
    /\ UNCHANGED << mode, callbacks, cb, snap, hsnap, issued, hist >>

\* a thread calls an operator: the thread of subscribe_fn subscribes and
\* unsubscribes callback1, the other threads trigger the event
RunCall(t) ==
    \/ t = SubscribeThread /\ RunSubscribe(t, "callback1")
    \/ t = SubscribeThread /\ RunUnsubscribe(t, "callback1")
    \/ t # SubscribeThread /\ RunInvoke(t)

\* a thread that waits for the mutex gets it
RunLock(t) ==
    \/ RunSubscribeLock(t)
    \/ RunUnsubscribeLock(t)
    \/ RunInvokeLock(t)

\* a thread that owns the mutex takes its next step
RunStep(t) ==
    \/ ConcSubscribePush(t)
    \/ ConcUnsubscribeRemove(t)
    \/ ConcUnsubscribeErase(t)
    \/ \E outcome \in Outcomes : ConcInvokeCall(t, outcome)
    \/ ConcInvokeReturn(t)

InitForever == Init /\ mode = "concurrent_static_event"

NextForever ==
    \/ (\E t \in Threads : RunCall(t)) /\ UNCHANGED extVars
    \/ (\E t \in Threads : RunLock(t)) /\ UNCHANGED extVars
    \/ (\E t \in Threads : RunStep(t)) /\ UNCHANGED extVars

\* the scheduler runs every thread that can take a step; std::mutex promises
\* no order among the threads that wait for it, so the lock is only weakly
\* fair; nothing obliges a thread to call an operator
SpecForever ==
    /\ InitForever
    /\ [][NextForever]_vars
    /\ \A t \in Threads : WF_vars(RunLock(t) /\ UNCHANGED extVars)
    /\ \A t \in Threads : WF_vars(RunStep(t) /\ UNCHANGED extVars)

(***************************************************************************)
(* What the claims are stated with: the history of operators, replayed one *)
(* after the other on an empty sequence.                                   *)
(***************************************************************************)
\* the operators that began before the latest operator of thread t
HistBefore(t) == SubSeq(hist, 1, hsnap[t] - 1)

\* the sequence a history leaves, an operator at a time
RECURSIVE Replay(_)
Replay(hs) ==
    IF hs = << >> THEN << >>
    ELSE LET before == Replay(SubSeq(hs, 1, Len(hs) - 1))
             e == hs[Len(hs)]
         IN CASE e.op = "subscribe" -> Append(before, e.cb)
              [] e.op = "unsubscribe" -> Without(before, e.cb)
              [] e.op = "reset" -> << >>
              [] OTHER -> before

\* the handles a history subscribes, in order
Subscribed(hs) ==
    LET subs == SelectSeq(hs, LAMBDA e : e.op = "subscribe")
    IN [i \in 1 .. Len(subs) |-> subs[i].cb]

NoUnsubscribe(hs) == \A i \in 1 .. Len(hs) : hs[i].op # "unsubscribe"

\* the position of the latest unsubscribe of h in a history, 0 if none
LastUnsubscribe(hs, h) ==
    LET at == { i \in 1 .. Len(hs) : hs[i].op = "unsubscribe" /\ hs[i].cb = h }
    IN IF at = {} THEN 0 ELSE CHOOSE i \in at : \A j \in at : j <= i

\* the number of subscribes of h since its latest unsubscribe
SubscribesSince(hs, h) ==
    Cardinality({ i \in LastUnsubscribe(hs, h) + 1 .. Len(hs) :
                    hs[i].op = "subscribe" /\ hs[i].cb = h })

\* h was unsubscribed, and not subscribed again, before the latest operator
\* of thread t began
UnsubscribedBefore(t, h) ==
    LastUnsubscribe(HistBefore(t), h) # 0 /\ SubscribesSince(HistBefore(t), h) = 0

\* the operators of thread t in a history, as it issued them
OfThread(hs, t) ==
    LET mine == SelectSeq(hs, LAMBDA e : e.t = t)
    IN [i \in 1 .. Len(mine) |-> [op |-> mine[i].op, cb |-> mine[i].cb]]

\* thread t is between the first and the last access of an operator to the vector
Inside(t) == pc[t] \in {"sub_push", "unsub_remove", "unsub_erase", "loop"}

\* thread t waits for the mutex
Waiting(t) == pc[t] \in {"sub_lock", "unsub_lock", "inv_lock"}

\* the latest operator() of thread t has returned to its caller
InvokeReturned(t) == pc[t] = "idle" /\ lastop[t] = "invoke" /\ res[t] = "returned"

\* the latest operator() of thread t has begun its loop
InvokeBegun(t) == lastop[t] = "invoke" /\ pc[t] \in {"loop", "idle"}

\* this step ends an operator of thread t
Returns(t) == pc'[t] = "idle" /\ (pc[t] # "idle" \/ issued'[t] # issued[t])

SubscribeReturns(t) == Returns(t) /\ lastop'[t] = "subscribe"

UnsubscribeReturns(t) == Returns(t) /\ lastop'[t] = "unsubscribe"

(***************************************************************************)
(* Claims.                                                                 *)
(***************************************************************************)

\* C1: in both classes, an operator() that returns on a registry that has
\* seen subscribes h1, ..., hn and no unsubscribe since construction has
\* called exactly h1, ..., hn, in that order.
C1_InvokeInInsertionOrder ==
    \A t \in Threads :
        (InvokeReturned(t) /\ NoUnsubscribe(HistBefore(t)))
            => trace[t] = Subscribed(HistBefore(t))

\* an operator() returned after two different handles were subscribed
C1_Witness ==
    \E t \in Threads :
        /\ InvokeReturned(t)
        /\ NoUnsubscribe(HistBefore(t))
        /\ Len(trace[t]) >= 2
        /\ trace[t][1] # trace[t][2]

\* C2: subscribe never deduplicates: a handle subscribed k >= 1 times since
\* its latest unsubscribe is called exactly k times by an operator() that
\* returns.
C2_CalledOncePerSubscribe ==
    \A t \in Threads :
        InvokeReturned(t) =>
            \A h \in Handles :
                SubscribesSince(HistBefore(t), h) >= 1
                    => Count(trace[t], h) = SubscribesSince(HistBefore(t), h)

\* an operator() returned after one handle was subscribed twice
C2_Witness ==
    \E t \in Threads, h \in Handles :
        /\ InvokeReturned(t)
        /\ SubscribesSince(HistBefore(t), h) >= 2
        /\ Count(trace[t], h) >= 2

\* C3: one operator-= of h removes every occurrence of h: when it returns the
\* vector holds no h and is shorter by the number of occurrences it held, and
\* an operator() that begins while h has not been subscribed again does not
\* call h.
C3_RemovesEveryOccurrence ==
    /\ [][\A t \in Threads :
            UnsubscribeReturns(t) =>
                /\ cb'[t] \notin Range(callbacks')
                /\ Len(callbacks') + Count(snap'[t], cb'[t]) = Len(snap'[t])]_vars
    /\ [](\A t \in Threads, h \in Handles :
            (InvokeBegun(t) /\ UnsubscribedBefore(t, h)) => h \notin Range(trace[t]))

\* an operator-= returned that found its handle at least twice
C3_Witness ==
    \E t \in Threads :
        /\ pc[t] = "idle" /\ lastop[t] = "unsubscribe" /\ res[t] = "returned"
        /\ Count(snap[t], cb[t]) >= 2
        /\ hsnap[t] = Len(hist)
        /\ cb[t] \notin Range(callbacks)

\* C4: in both classes, an operator-= of a handle the vector does not hold
\* returns normally and leaves the vector as it was, empty or not.
C4_AbsentHandleNoOp ==
    [][\A t \in Threads :
        (UnsubscribeReturns(t) /\ cb'[t] \notin Range(snap'[t]))
            => (callbacks' = snap'[t] /\ res'[t] = "returned")]_vars

\* an operator-= of an absent handle returned on a vector that is not empty
C4_Witness ==
    \E t \in Threads :
        /\ pc[t] = "idle" /\ lastop[t] = "unsubscribe" /\ res[t] = "returned"
        /\ cb[t] \notin Range(snap[t])
        /\ snap[t] # << >>
        /\ hsnap[t] = Len(hist)
        /\ callbacks = snap[t]

\* C5: operator-= of h leaves the old vector filtered by 'entry # h': the
\* other entries keep their multiplicity and their relative order.
C5_OthersKeptInOrder ==
    [][\A t \in Threads :
        UnsubscribeReturns(t) => callbacks' = Without(snap'[t], cb'[t])]_vars

\* an operator-= returned that removed a handle standing between two
\* different other handles
C5_Witness ==
    \E t \in Threads :
        /\ pc[t] = "idle" /\ lastop[t] = "unsubscribe" /\ res[t] = "returned"
        /\ hsnap[t] = Len(hist)
        /\ Len(snap[t]) >= 3
        /\ snap[t][2] = cb[t]
        /\ snap[t][1] # snap[t][3]
        /\ callbacks = << snap[t][1], snap[t][3] >>

\* C6: operator+= always succeeds and only appends: when it returns, the
\* vector is the vector it found followed by cb, already present or not.
C6_SubscribeAppends ==
    [][\A t \in Threads :
        SubscribeReturns(t) =>
            /\ res'[t] = "returned"
            /\ callbacks = snap'[t]
            /\ callbacks' = Append(snap'[t], cb'[t])
            /\ Len(callbacks') = Len(callbacks) + 1
            /\ \A i \in 1 .. Len(callbacks) : callbacks'[i] = callbacks[i]]_vars

\* an operator+= returned whose handle the vector already held, behind
\* another handle
C6_Witness ==
    \E t \in Threads :
        /\ pc[t] = "idle" /\ lastop[t] = "subscribe" /\ res[t] = "returned"
        /\ hsnap[t] = Len(hist)
        /\ Len(snap[t]) >= 2
        /\ snap[t][1] = cb[t]
        /\ snap[t][2] # cb[t]
        /\ callbacks = Append(snap[t], cb[t])

\* C7: when the callback at position i throws, the callbacks before i have
\* each been called once, none after i is called, the exception reaches the
\* caller of operator(), and the vector is what it was when operator() began.
C7_FaultStopsInvoke ==
    /\ [](\A t \in Threads :
            (lastop[t] = "invoke" /\ threwAt[t] # 0) =>
                /\ pc[t] = "idle"
                /\ res[t] = "fault"
                /\ threwAt[t] <= Len(snap[t])
                /\ trace[t] = SubSeq(snap[t], 1, threwAt[t]))
    /\ [][\A t \in Threads :
            (threwAt'[t] # 0 /\ threwAt'[t] # threwAt[t]) =>
                (callbacks' = callbacks /\ callbacks' = snap'[t])]_vars

\* a callback threw that stands neither first nor last in the vector
C7_Witness ==
    \E t \in Threads :
        /\ lastop[t] = "invoke" /\ res[t] = "fault"
        /\ threwAt[t] >= 2
        /\ threwAt[t] < Len(snap[t])
        /\ Len(trace[t]) = threwAt[t]

\* C8: in the concurrent class every operator owns the one mutex from before
\* its first access to the vector until after its last, so at most one
\* thread is inside an operator, and every callback is called by a thread
\* that owns the mutex.
C8_OneThreadInside ==
    /\ [](mode = "concurrent_static_event" =>
            /\ \A t \in Threads : Inside(t) => mutex = t
            /\ Cardinality({ t \in Threads : Inside(t) }) <= 1)
    /\ [][mode = "concurrent_static_event" =>
            \A t \in Threads :
                (trace'[t] # trace[t] /\ trace'[t] # << >>)
                    => (mutex = t /\ \A u \in Threads \ {t} : ~Inside(u))]_vars

\* a thread has called a callback while another thread waits for the mutex
C8_Witness ==
    \E t, u \in Threads :
        /\ mode = "concurrent_static_event"
        /\ pc[t] = "loop" /\ mutex = t
        /\ Len(trace[t]) >= 1
        /\ Waiting(u)

\* C9: in the concurrent class an operator() calls exactly the vector as it
\* stood when it took the mutex: every operator+= and operator-= that began
\* before it is wholly in that vector, none that began later is, and the
\* vector does not change while the loop runs.
C9_InvokeSeesOneInstant ==
    \A t \in Threads :
        (mode = "concurrent_static_event" /\ InvokeBegun(t)) =>
            /\ snap[t] = Replay(HistBefore(t))
            /\ IsPrefix(trace[t], snap[t])
            /\ (pc[t] = "loop" => (callbacks = snap[t] /\ Len(trace[t]) = it[t] - 1))
            /\ (res[t] = "returned" => trace[t] = snap[t])

\* an operator() has called the whole vector while another thread waits to
\* subscribe or unsubscribe
C9_Witness ==
    \E t, u \in Threads :
        /\ mode = "concurrent_static_event"
        /\ pc[t] = "loop" /\ it[t] = last[t]
        /\ trace[t] # << >>
        /\ pc[u] \in {"sub_lock", "unsub_lock"}

\* C10: in the concurrent class the operators of all threads take effect one
\* after the other in one order that keeps each thread's own order: when no
\* thread is inside an operator, the vector is what that order leaves on an
\* empty vector, nothing lost and nothing added.
C10_Serialized ==
    mode = "concurrent_static_event" =>
        /\ (\A t \in Threads : ~Inside(t)) => callbacks = Replay(hist)
        /\ \A t \in Threads :
            /\ IsPrefix(OfThread(hist, t), issued[t])
            /\ Len(OfThread(hist, t)) = Len(issued[t]) - (IF Waiting(t) THEN 1 ELSE 0)

\* the threads are done; their operators took effect interleaved and left
\* a vector that is not empty
C10_Witness ==
    /\ mode = "concurrent_static_event"
    /\ \A t \in Threads : pc[t] = "idle"
    /\ Len(hist) >= 3
    /\ hist[1].t = hist[3].t
    /\ hist[1].t # hist[2].t
    /\ hist[2].op = "unsubscribe"
    /\ callbacks # << >>

\* C11: in the concurrent class every change of the vector is made by a
\* thread that owns the mutex and is inside one of the three operators; no
\* other code, the Caller class and its reset() included, touches the vector.
C11_OnlyUnderLock ==
    [][(mode = "concurrent_static_event" /\ callbacks' # callbacks)
        => (mutex \in Threads /\ Inside(mutex))]_vars

\* C17: a registry starts empty and is never cleared on its own: the vector
\* changes only in operator+=, operator-= and reset(), every step of
\* operator() leaves it as it is, and operator() on an empty registry calls
\* nothing.
C17_ClearedOnlyExplicitly ==
    /\ [](hist = << >> => callbacks = << >>)
    /\ [][callbacks' # callbacks =>
            \/ \E t \in Threads :
                  pc[t] \in {"sub_push", "unsub_remove", "unsub_erase"} /\ pc'[t] # pc[t]
            \/ /\ Len(hist') = Len(hist) + 1
               /\ hist'[Len(hist')].op \in {"subscribe", "unsubscribe", "reset"}]_vars
    /\ [][\A t \in Threads :
            ((pc[t] = "loop" \/ pc'[t] = "loop") /\ (pc'[t] # pc[t] \/ trace'[t] # trace[t]))
                => callbacks' = callbacks]_vars
    /\ [](\A t \in Threads : (InvokeBegun(t) /\ snap[t] = << >>) => trace[t] = << >>)

\* an operator() returned without a call on a registry that reset() had
\* emptied, and another one before had left the vector as it was
C17_Witness ==
    \E t \in Threads, i \in 1 .. Len(hist) :
        /\ InvokeReturned(t)
        /\ snap[t] = << >> /\ trace[t] = << >>
        /\ hsnap[t] = Len(hist)
        /\ i < hsnap[t]
        /\ hist[i].op = "reset"
        /\ Replay(SubSeq(hist, 1, i - 1)) # << >>
        /\ \E j \in 1 .. i - 1 : hist[j].op = "invoke"

C15_CallbacksGetTheArgument ==
    [][\A t \in Threads :
        /\ (pc[t] = "loop" /\ Len(trace'[t]) > Len(trace[t]))
              => (last_value' = args[t] /\ args'[t] = args[t])
        /\ (pc[t] = "loop" /\ pc'[t] = "idle" /\ res'[t] = "returned" /\ snap[t] # << >>)
              => /\ last_value' = args[t]
                 /\ counter' = counter_was[t] + SumIncrement(snap[t])]_vars

C15_Witness ==
    \E t \in Threads :
        /\ InvokeReturned(t)
        /\ snap[t] = << "callback1", "callback2" >>
        /\ trace[t] = snap[t]
        /\ args[t] = 42
        /\ last_value = 42
        /\ counter_was[t] > 0
        /\ counter = counter_was[t] + 3

\* C13: with one thread repeating "subscribe callback1; unsubscribe
\* callback1" and another repeating operator() on a concurrent registry
\* that starts empty, both threads leave their loops (nothing hangs), no
\* single operator() calls callback1 more than once, and the vector is
\* empty once both have finished.
C13_LoopsFinish ==
    /\ <>[](Joined(SubscribeThread) /\ Joined(InvokeThread))
    /\ [](Count(trace[InvokeThread], "callback1") <= 1)
    /\ []((Joined(SubscribeThread) /\ Joined(InvokeThread)) => callbacks = << >>)

C13_Witness ==
    /\ Joined(SubscribeThread)
    /\ Joined(InvokeThread)
    /\ callbacks = << >>
    /\ trace[InvokeThread] = << "callback1" >>
    /\ snap[InvokeThread] = << "callback1" >>
    /\ counter = 1
    /\ last_value = Iterations - 1

\* C16: both classes do the same with the operators of a single thread:
\* whenever only the main thread has called operators and its latest one
\* has ended, the vector is what replaying its calls in program order
\* leaves, and the trace and the result of its latest operator() are fixed
\* by that vector and by which callback threw, in the same way whichever
\* class the registry is an instance of.
C16_ModesAgree ==
    ((\A u \in Threads \ {MainThread} : issued[u] = << >>) /\ pc[MainThread] = "idle")
    => /\ callbacks = Replay(issued[MainThread])
       /\ hist = [i \in 1 .. Len(issued[MainThread]) |->
                    [t |-> MainThread, op |-> issued[MainThread][i].op,
                     cb |-> issued[MainThread][i].cb]]
       /\ lastop[MainThread] = "invoke"
            => /\ trace[MainThread] =
                    IF threwAt[MainThread] = 0 THEN callbacks
                    ELSE SubSeq(callbacks, 1, threwAt[MainThread])
               /\ res[MainThread] =
                    IF threwAt[MainThread] = 0 THEN "returned" ELSE "fault"

C16_Witness ==
    /\ mode = "concurrent_static_event"
    /\ \A u \in Threads \ {MainThread} : issued[u] = << >>
    /\ Len(issued[MainThread]) = MaxConcOps
    /\ issued[MainThread][2].op = "unsubscribe"
    /\ issued[MainThread][2].cb = issued[MainThread][1].cb
    /\ issued[MainThread][3].op = "subscribe"
    /\ pc[MainThread] = "idle"
    /\ Len(callbacks) = 1

\* C18: obfuscation is its own inverse: for a string s and a key k that is
\* not empty, str_obfuscate(s, k) is as long as s and its character i is
\* s[i] XOR k[i mod |k|]; obfuscating the result again with k gives s, and
\* so does str_deobfuscate; the same for the wide functions.
C18_ObfuscateInvolution ==
    call.fn \in {"str_obfuscate", "wstr_obfuscate"}
    => /\ Len(ret[1]) = Len(call.str)
       /\ \A i \in 1 .. Len(call.str) :
            ret[1][i] = BitXor(call.str[i], call.key[((i - 1) % Len(call.key)) + 1])
       /\ Len(ret) >= 2 => ret[2] = call.str
       /\ Len(ret) >= 3 => ret[3] = call.str

C18_Witness ==
    /\ call.fn = "str_obfuscate"
    /\ Len(ret) = 3
    /\ call.str = << 72, 200, 107 >>
    /\ call.key = << 107, 200 >>
    /\ ret[1] = << 35, 0, 0 >>
    /\ ret[3] = call.str

\* what a code unit is when case is ignored: 'A'..'Z' fold to 'a'..'z'
FoldCase(c) == IF c >= 65 /\ c <= 90 THEN c + 32 ELSE c

\* a and b are equal ignoring case
EqualIgnoringCase(a, b) ==
    Len(a) = Len(b) /\ \A i \in 1 .. Len(a) : FoldCase(a[i]) = FoldCase(b[i])

\* hash = hash * 33 + lower(c), modulo the width of size_t
RECURSIVE Hash33(_, _, _)
Hash33(build, wide, str) ==
    IF str = << >> THEN 0
    ELSE (Hash33(build, wide, SubSeq(str, 1, Len(str) - 1)) * 33
            + HashChar(build, wide, str[Len(str)])) % Pow2(SizeBits)

\* C19: the case-insensitive hash agrees with the case-insensitive
\* equality: ci_equal(a, b) is true exactly when a and b are equal ignoring
\* case, then ci_hash(a) = ci_hash(b), and the hash is hash * 33 + lower(c)
\* over the characters, modulo the width of size_t; the same for wci_hash
\* and wci_equal.
C19_HashAgreesWithEqual ==
    (call.fn \in {"ci_hash", "wci_hash"} /\ Len(ret) = 3)
    => /\ ret[3] = EqualIgnoringCase(call.a, call.b)
       /\ ret[3] => ret[1] = ret[2]
       /\ ret[1] = Hash33(call.build, call.fn = "wci_hash", call.a)
       /\ ret[2] = Hash33(call.build, call.fn = "wci_hash", call.b)

C19_Witness ==
    /\ call.fn = "ci_hash"
    /\ Len(ret) = 3
    /\ call.build = "ubuntu"
    /\ call.a = << 200, 72 >>
    /\ call.b = << 200, 104 >>
    /\ ret[3]
    /\ ret[1] = 2608
    /\ ret[2] = 2608

\* C20: ci_map and wci_map behave as an ordered map with case-insensitive
\* keys: after any sequence of insertions every inserted key has exactly
\* one entry that equals it ignoring case, so keys equal ignoring case share
\* an entry and keys that differ have separate entries (which needs a
\* comparator that is a strict ordering).
C20_OneEntryPerKeyIgnoringCase ==
    call.fn \in {"ci_map", "wci_map"}
    => \A i \in 1 .. Len(call.inserted) :
         Cardinality({ j \in 1 .. Len(ret) :
                        EqualIgnoringCase(ret[j], call.inserted[i]) }) = 1

\* the strings of a sequence written one after another with d between them
RECURSIVE Flatten(_, _)
Flatten(pieces, d) ==
    IF pieces = << >> THEN << >>
    ELSE IF Len(pieces) = 1 THEN pieces[1]
    ELSE pieces[1] \o << d >> \o Flatten(Tail(pieces), d)

\* C21: with options none, str_split(s, d) returns the pieces of s between
\* consecutive delimiters in order, empty pieces included: no piece holds
\* d, the pieces with d between them are s, a non-empty s gives as many
\* pieces as it has delimiters plus one, and the empty s gives none; the
\* same for wstr_split.
C21_SplitNonePieces ==
    (call.fn \in {"str_split", "wstr_split"} /\ call.options = none)
    => /\ \A i \in 1 .. Len(ret[1]) : Count(ret[1][i], call.delimiter) = 0
       /\ Flatten(ret[1], call.delimiter) = call.str
       /\ call.str # << >> => Len(ret[1]) = Count(call.str, call.delimiter) + 1
       /\ call.str = << >> => ret[1] = << >>

C21_Witness ==
    /\ call.fn = "str_split"
    /\ call.options = none
    /\ call.delimiter = 44
    /\ call.str = << 44, 97, 44, 44 >>
    /\ ret[1] = << << >>, << 97 >>, << >>, << >> >>

\* C22: when remove_empty_entries is set, alone or with trim_left,
\* trim_right or trim, the result of str_split and wstr_split holds no empty
\* string.
C22_NoEmptyEntries ==
    (call.fn \in {"str_split", "wstr_split"} /\ has_flag(call.options, remove_empty_entries))
    => \A i \in 1 .. Len(ret[1]) : ret[1][i] # << >>

\* C28: split with options none and join are inverse: str_join of
\* str_split(s, d, none) with d is s, for every s and d; the same for the
\* wide functions.
C28_JoinOfSplit ==
    (call.fn \in {"str_split", "wstr_split"} /\ call.options = none /\ Len(ret) = 2)
    => ret[2] = call.str

C28_Witness ==
    /\ call.fn = "wstr_split"
    /\ call.options = none
    /\ call.delimiter = 32
    /\ call.str = << 32, 40000, 32, 32 >>
    /\ Len(ret) = 2
    /\ Len(ret[1]) = 4
    /\ ret[2] = call.str

\* an alphanumeric character of ASCII
Alnum(c) == (c >= 48 /\ c <= 57) \/ (c >= 65 /\ c <= 90) \/ (c >= 97 /\ c <= 122)

\* the maximal runs of alphanumeric characters of s, in lower case
RECURSIVE AlnumRuns(_)
AlnumRuns(s) ==
    IF s = << >> THEN << >>
    ELSE LET p == AlnumRuns(SubSeq(s, 1, Len(s) - 1))
             c == s[Len(s)]
         IN IF ~Alnum(c) THEN p
            ELSE IF Len(s) >= 2 /\ Alnum(s[Len(s) - 1])
            THEN [p EXCEPT ![Len(p)] = Append(@, FoldCase(c))]
            ELSE Append(p, << FoldCase(c) >>)

\* C23: for a separator that is not alphanumeric, str_to_slug returns only
\* lower-case alphanumeric characters and the separator, the result neither
\* starts nor ends with the separator nor has two in a row, and each maximal
\* run of other characters between two alphanumeric ones has become exactly
\* one separator: the result is the alphanumeric runs of the input, in lower
\* case, with one separator between neighbours.
C23_SlugShape ==
    call.fn = "str_to_slug"
    => LET r == ret[1]
           sep == call.separator
       IN /\ \A i \in 1 .. Len(r) : r[i] = sep \/ (Alnum(r[i]) /\ FoldCase(r[i]) = r[i])
          /\ r # << >> => (r[1] # sep /\ r[Len(r)] # sep)
          /\ \A i \in 1 .. Len(r) - 1 : ~(r[i] = sep /\ r[i + 1] = sep)
          /\ r = Flatten(AlnumRuns(call.str), sep)

C23_Witness ==
    /\ call.fn = "str_to_slug"
    /\ call.separator = 95
    /\ call.str = << 72, 32, 200, 49 >>
    /\ ret[1] = << 104, 95, 49 >>

\* C24: after any sequence of subscribes and unsubscribes, taken in the
\* order in which they began on the vector, the vector holds each handle h
\* as many times as h was subscribed since its latest unsubscribe, or since
\* construction if it was never unsubscribed; this holds whenever no
\* operator+= or operator-= is in the middle of its change.
C24_OccurrencesSinceUnsubscribe ==
    (\A t \in Threads : pc[t] \notin {"sub_push", "unsub_remove", "unsub_erase"})
    => \A h \in Handles : Count(callbacks, h) = SubscribesSince(hist, h)

C24_Witness ==
    /\ \A t \in Threads : pc[t] = "idle"
    /\ \E h \in Handles, g \in Handles :
         /\ h # g
         /\ LastUnsubscribe(hist, h) # 0
         /\ SubscribesSince(hist, h) = 2
         /\ Count(callbacks, h) = 2
         /\ Count(callbacks, g) = 1
         /\ LastUnsubscribe(hist, g) = 0

\* C25: in the single-threaded class, when a callback subscribes or
\* unsubscribes on the registry that is invoking it, the operator() in
\* progress still calls exactly the handles the vector held when it began,
\* each once and in order, and every turn of its loop reads a position
\* inside the vector as it is then.
C25_ReentrantInvokeKeepsSnapshot ==
    /\ []((mode = "static_event" /\ InvokeReturned(MainThread))
            => trace[MainThread] = snap[MainThread])
    /\ [][(mode = "static_event" /\ pc[MainThread] = "loop"
            /\ Len(trace'[MainThread]) > Len(trace[MainThread]))
           => (it[MainThread] <= Len(callbacks) /\ nested[MainThread] = "none")]_vars


\* an operator of thread t leaves the registry in this step
Leaves(t) == Inside(t) /\ pc'[t] = "idle"

C27_EveryWaiterReturns ==
    \A t \in Threads : Waiting(t) ~> (pc[t] = "idle")

\* C27: in concurrent mode an operator that owns the lock performs its
\* effect once and returns (operator+= appends its callback once, operator-=
\* leaves no occurrence of it, operator() has called every element once),
\* and a thread that waits for the lock gets it unless other threads take
\* the lock again and again.
C27_WaitsOnlyWhileOthersLock ==
    /\ \A t \in Threads : Inside(t) ~> (pc[t] = "idle")
    /\ \A t \in Threads :
          (<>[]Waiting(t)) => []<>(\E u \in Threads \ {t} : mutex = u)
    /\ [][\A t \in Threads :
            /\ (pc[t] = "sub_push" /\ pc'[t] = "idle") =>
                 /\ Len(callbacks') = Len(callbacks) + 1
                 /\ Count(callbacks', cb[t]) = Count(callbacks, cb[t]) + 1
            /\ (pc[t] = "unsub_erase" /\ pc'[t] = "idle") =>
                 /\ Count(callbacks', cb[t]) = 0
                 /\ Len(callbacks') <= Len(callbacks)
            /\ (pc[t] = "loop" /\ pc'[t] = "idle" /\ res'[t] = "returned") =>
                 trace'[t] = callbacks]_vars

\* a thread waits for the lock that another thread owns, after an operator
\* of its own has already returned
C27_Witness ==
    \E t \in Threads : \E u \in Threads \ {t} :
        /\ Waiting(t) /\ mutex = u /\ pc[u] = "sub_push"
        /\ Len(callbacks) > 0


\* C29: str_obfuscate and wstr_obfuscate complete without fault for every
\* string and every key, the empty key included: no call divides by a key
\* length of zero and none reads a position outside the key.
C29_NoFaultForAnyKey ==
    call.fn \in {"str_obfuscate", "wstr_obfuscate"} => (~call.fault /\ ~call.outside)

====
